---- MODULE Spec2Model ----
(***************************************************************************)
(* Sales-Forecast-System: the training pipeline of src/src/eda_v1.2.py     *)
(* (add_lag_features, split_train_test, train_forecast_model) and the      *)
(* serving layer of src/src/api_v1_3.py and src/src/api_v1_5.py            *)
(* (_get_model, _build_features_as_in_training, predict).                  *)
(*                                                                         *)
(* Floats are modelled as exact rationals [n, d] in lowest terms; NaN is   *)
(* the pair with denominator 0.  Feature names are sequences of            *)
(* one-character strings so that str.lower() is a real conversion.         *)
(***************************************************************************)
EXTENDS Integers, Sequences, FiniteSets, TLC

VARIABLES
    \* ---- feature alignment (pure function harness) ----
    f_in,        \* arguments of _build_features_as_in_training
    f_out,       \* its returned row, or NotRun
    \* ---- training pipeline (eda_v1.2.py) ----
    ts,          \* the monthly series: sequence of values, oldest first
    ts_start,    \* calendar month (1..12) of the first point of ts
    HAS_XGB,     \* _HAS_XGB: whether the xgboost import succeeded
    t_res,       \* outcome of the last pipeline operation, or NotRun
    \* ---- serving layer (api_v1_3.py / api_v1_5.py) ----
    version,     \* which serving module this process runs
    disk,        \* alias -> what the artifact file holds at startup
    AVAILABLE,   \* set of aliases discovered at import time
    CACHE,       \* _CACHE: alias -> loaded estimator, or NoEntry
    served,      \* number of predict requests handled so far
    req,         \* the last predict request: its inputs, its path, its response
    log_rows,    \* rows committed to forecast_logs, oldest first
    \* ---- concurrent requests on the shared model cache ----
    thr,         \* worker thread -> where it stands in its predict request
    loads,       \* number of joblib.load calls started so far
    \* ---- evaluation metrics (pure function harness) ----
    m_in,        \* arguments of mape: y_true and y_pred
    m_out,       \* its returned value, or NotRun
    \* ---- loading the raw records (pure function harness) ----
    csv,         \* the file handed to load_and_monthly_aggregate, or NotRun
    l_out        \* what load_and_monthly_aggregate returned, or NotRun

feat_vars  == <<f_in, f_out>>
train_vars == <<ts, ts_start, HAS_XGB, t_res>>
serve_vars == <<version, disk, AVAILABLE, CACHE, served, req, log_rows>>
conc_vars  == <<thr, loads>>
metric_vars == <<m_in, m_out>>
load_vars  == <<csv, l_out>>
vars       == <<f_in, f_out, ts, ts_start, HAS_XGB, t_res,
                version, disk, AVAILABLE, CACHE, served, req, log_rows,
                thr, loads, m_in, m_out, csv, l_out>>

NotRun == [kind |-> "not_run"]

-----------------------------------------------------------------------------
(* Exact arithmetic standing in for Python floats *)

Abs(x) == IF x < 0 THEN -x ELSE x

RECURSIVE Gcd(_, _)
Gcd(a, b) == IF b = 0 THEN a ELSE Gcd(b, a % b)

\* the rational n/d (d > 0) in lowest terms
Rat(n, d) ==
    LET g == Gcd(Abs(n), d)
    IN  [n |-> n \div g, d |-> d \div g]

NaN == [n |-> 0, d |-> 0]
IsNaN(x) == x.d = 0

F(i) == [n |-> i, d |-> 1]                 \* float(i) of an integer
RAdd(x, y) == Rat(x.n * y.d + y.n * x.d, x.d * y.d)
RMul(x, y) == Rat(x.n * y.n, x.d * y.d)
RDivInt(x, k) == Rat(x.n, x.d * k)         \* x / k for an integer k > 0
RLess(x, y) == x.n * y.d < y.n * x.d
RSub(x, y) == Rat(x.n * y.d - y.n * x.d, x.d * y.d)
RAbs(x) == [n |-> Abs(x.n), d |-> x.d]     \* np.abs
\* x / y for y # 0
RDiv(x, y) == IF y.n < 0 THEN Rat(-(x.n * y.d), x.d * (-y.n)) ELSE Rat(x.n * y.d, x.d * y.n)

\* the value passed on as it is, not rounded
round_none(x) == x

\* Python round(x, 2): nearest multiple of 1/100, ties to even
round2(x) ==
    LET a   == x.n * 100
        q   == a \div x.d
        rem == a - q * x.d
        up  == \/ 2 * rem > x.d
               \/ (2 * rem = x.d /\ q % 2 = 1)
    IN  Rat(IF up THEN q + 1 ELSE q, 100)

RECURSIVE SeqSum(_)
SeqSum(s) == IF s = <<>> THEN F(0) ELSE RAdd(Head(s), SeqSum(Tail(s)))

-----------------------------------------------------------------------------
(* Feature names and str.lower() *)

UpperChars == <<"A","B","C","D","E","F","G","H","I","J","K","L","M",
                "N","O","P","Q","R","S","T","U","V","W","X","Y","Z">>
LowerChars == <<"a","b","c","d","e","f","g","h","i","j","k","l","m",
                "n","o","p","q","r","s","t","u","v","w","x","y","z">>

LowerChar(c) ==
    IF \E i \in 1..26 : UpperChars[i] = c
    THEN LowerChars[CHOOSE i \in 1..26 : UpperChars[i] = c]
    ELSE c

\* the lookup done on the name as given, without lower-casing it
lower_missing(name) == name

\* str(col).lower()
lower(name) == [i \in 1..Len(name) |-> LowerChar(name[i])]

n_lag_1 == <<"l","a","g","_","1">>
n_lag1  == <<"l","a","g","1">>
n_l1    == <<"l","1">>
n_lag_2 == <<"l","a","g","_","2">>
n_lag2  == <<"l","a","g","2">>
n_l2    == <<"l","2">>
n_lag_3 == <<"l","a","g","_","3">>
n_lag3  == <<"l","a","g","3">>
n_l3    == <<"l","3">>
n_month == <<"m","o","n","t","h">>
n_roll_mean_3 == <<"r","o","l","l","_","m","e","a","n","_","3">>
n_rollmean3   == <<"r","o","l","l","m","e","a","n","3">>
n_sma3  == <<"s","m","a","3">>
n_avg3  == <<"a","v","g","3">>
n_mean3 == <<"m","e","a","n","3">>
n_roll_mean_6 == <<"r","o","l","l","_","m","e","a","n","_","6">>
n_rollmean6   == <<"r","o","l","l","m","e","a","n","6">>
n_sma6  == <<"s","m","a","6">>
n_avg6  == <<"a","v","g","6">>
n_mean6 == <<"m","e","a","n","6">>

\* the column order the v1.2 training pipeline fits on
TrainingNames == <<n_lag_1, n_lag_2, n_lag_3, n_month, n_roll_mean_3, n_roll_mean_6>>

-----------------------------------------------------------------------------
(* _build_features_as_in_training *)

\* a three-period mean taken from the two latest lags only
roll3_of_two_lags(lag1, lag2, lag3) == RDivInt(RAdd(lag1, lag2), 2)

roll3(lag1, lag2, lag3) == RDivInt(RAdd(RAdd(lag1, lag2), lag3), 3)

\* a six-period mean attempted from three lags: their sum over 6
roll6_sum_over_six(lag1, lag2, lag3) == RDivInt(RAdd(RAdd(lag1, lag2), lag3), 6)

\* the proxy: roll6 = roll3
roll6(lag1, lag2, lag3) == roll3(lag1, lag2, lag3)

\* the dict `derived` of api_v1_5.py, as a set of <<key, value>> pairs
derived_v15(lag1, lag2, lag3, month_val) ==
    { <<n_lag_1, lag1>>, <<n_lag1, lag1>>, <<n_l1, lag1>>,
      <<n_lag_2, lag2>>, <<n_lag2, lag2>>, <<n_l2, lag2>>,
      <<n_lag_3, lag3>>, <<n_lag3, lag3>>, <<n_l3, lag3>>,
      <<n_month, F(month_val)>>,
      <<n_roll_mean_3, roll3(lag1, lag2, lag3)>>,
      <<n_roll_mean_6, roll6(lag1, lag2, lag3)>> }

\* the dict `derived` of api_v1_3.py: the same plus the rolling-mean aliases
derived_v13(lag1, lag2, lag3, month_val) ==
    derived_v15(lag1, lag2, lag3, month_val) \cup
    { <<n_rollmean3, roll3(lag1, lag2, lag3)>>, <<n_sma3, roll3(lag1, lag2, lag3)>>,
      <<n_avg3, roll3(lag1, lag2, lag3)>>, <<n_mean3, roll3(lag1, lag2, lag3)>>,
      <<n_rollmean6, roll6(lag1, lag2, lag3)>>, <<n_sma6, roll6(lag1, lag2, lag3)>>,
      <<n_avg6, roll6(lag1, lag2, lag3)>>, <<n_mean6, roll6(lag1, lag2, lag3)>> }

\* the dict built with the lags in the opposite order
derived_lags_reversed(ver, lag1, lag2, lag3, month_val) ==
    IF ver = "v1_3" THEN derived_v13(lag3, lag2, lag1, month_val)
                    ELSE derived_v15(lag3, lag2, lag1, month_val)

derived(ver, lag1, lag2, lag3, month_val) ==
    IF ver = "v1_3" THEN derived_v13(lag1, lag2, lag3, month_val)
                    ELSE derived_v15(lag1, lag2, lag3, month_val)

\* dict.get(key, default)
dict_get(d, key, default) ==
    IF \E p \in d : p[1] = key
    THEN (CHOOSE p \in d : p[1] = key)[2]
    ELSE default

\* row = [float(derived.get(str(col).lower(), 0.0)) for col in names]
aligned_row(d, names) ==
    [i \in 1..Len(names) |-> dict_get(d, lower(names[i]), F(0))]

\* the empty-names fallback left out: an empty list gives an empty row
build_features_no_fallback(ver, lag1, lag2, lag3, month_val, names) ==
    aligned_row(derived(ver, lag1, lag2, lag3, month_val), names)

\* the returned 1 x k array, as its single row
build_features_as_in_training(ver, lag1, lag2, lag3, month_val, names) ==
    IF names = <<>>
    THEN <<lag1, lag2, lag3>>
    ELSE aligned_row(derived(ver, lag1, lag2, lag3, month_val), names)

-----------------------------------------------------------------------------
(* pandas primitives used by eda_v1.2.py, on a series held as a sequence *)

\* a shift that wraps around (numpy.roll) instead of filling with NaN
shift_roll(s, k) == [p \in 1..Len(s) |-> s[((p - k - 1) % Len(s)) + 1]]

\* Series.shift(k): position p takes the value k positions earlier, NaN if none
shift(s, k) == [p \in 1..Len(s) |-> IF p - k >= 1 THEN s[p - k] ELSE NaN]

\* the non-NaN values of s inside the window of width w ending at p
window_values(s, w, p) ==
    LET lo  == IF p - w + 1 >= 1 THEN p - w + 1 ELSE 1
        idx == {q \in lo..p : ~IsNaN(s[q])}
    IN  idx

RECURSIVE SumOver(_, _)
SumOver(s, idx) ==
    IF idx = {} THEN F(0)
    ELSE LET q == CHOOSE q \in idx : TRUE
         IN  RAdd(s[q], SumOver(s, idx \ {q}))

\* Series.rolling(w, min_periods=mp).mean()
rolling_mean(s, w, min_periods) ==
    [p \in 1..Len(s) |->
        LET idx == window_values(s, w, p)
        IN  IF Cardinality(idx) >= min_periods
            THEN RDivInt(SumOver(s, idx), Cardinality(idx))
            ELSE NaN]

\* df.index.month for the row at position p of a series starting in month m0
calendar_month(m0, p) == ((m0 - 1 + p - 1) % 12) + 1

\* Python slice bounds of seq[:-h] / seq[-h:] for h > 0 on a sequence of length n
slice_cut(n, h) == IF n - h < 0 THEN 0 ELSE n - h

\* DataFrame/Series .iloc[:-h]
iloc_head(s, h) == SubSeq(s, 1, slice_cut(Len(s), h))

\* the holdout taken one row too long: .iloc[-(h+1):]
iloc_tail_long(s, h) == SubSeq(s, slice_cut(Len(s), h + 1) + 1, Len(s))

\* DataFrame/Series .iloc[-h:]
iloc_tail(s, h) == SubSeq(s, slice_cut(Len(s), h) + 1, Len(s))

-----------------------------------------------------------------------------
(* add_lag_features *)

\* the rolling means taken over the series itself, the current month included
lag_frame_rolling_unshifted(series, m0, n_lags) ==
    LET sh == [i \in 1..n_lags |-> shift(series, i)]
        r3 == rolling_mean(series, 3, 1)
        r6 == rolling_mean(series, 6, 1)
    IN  [p \in 1..Len(series) |->
            [ idx   |-> p,
              Sales |-> series[p],
              lag   |-> [i \in 1..n_lags |-> sh[i][p]],
              month |-> calendar_month(m0, p),
              roll_mean_3 |-> r3[p],
              roll_mean_6 |-> r6[p] ]]

\* the frame before dropna: one row per point of the series
lag_frame(series, m0, n_lags) ==
    LET sh == [i \in 1..n_lags |-> shift(series, i)]
        r3 == rolling_mean(shift(series, 1), 3, 1)
        r6 == rolling_mean(shift(series, 1), 6, 1)
    IN  [p \in 1..Len(series) |->
            [ idx   |-> p,
              Sales |-> series[p],
              lag   |-> [i \in 1..n_lags |-> sh[i][p]],
              month |-> calendar_month(m0, p),
              roll_mean_3 |-> r3[p],
              roll_mean_6 |-> r6[p] ]]

row_has_nan(row) ==
    \/ IsNaN(row.Sales)
    \/ \E i \in DOMAIN row.lag : IsNaN(row.lag[i])
    \/ IsNaN(row.roll_mean_3)
    \/ IsNaN(row.roll_mean_6)

\* DataFrame.dropna(): keep, in order, the rows without any NaN
dropna(frame) == SelectSeq(frame, LAMBDA row : ~row_has_nan(row))

add_lag_features(series, m0, n_lags) == dropna(lag_frame(series, m0, n_lags))

-----------------------------------------------------------------------------
(* split_train_test *)

\* df_feat["Sales"]
y_of(df_feat) == [k \in 1..Len(df_feat) |-> [idx |-> df_feat[k].idx, Sales |-> df_feat[k].Sales]]

\* df_feat.drop(columns=["Sales"])
X_of(df_feat) ==
    [k \in 1..Len(df_feat) |->
        [ idx |-> df_feat[k].idx, lag |-> df_feat[k].lag, month |-> df_feat[k].month,
          roll_mean_3 |-> df_feat[k].roll_mean_3, roll_mean_6 |-> df_feat[k].roll_mean_6 ]]

\* a row of X as the estimator receives it: the columns in the order
\* add_lag_features created them, every value a float
row_values(x) ==
    [i \in 1..Len(x.lag) |-> x.lag[i]] \o <<F(x.month), x.roll_mean_3, x.roll_mean_6>>

\* the guard written as horizon < 0, letting horizon = 0 through
split_train_test_lax(df_feat, horizon) ==
    IF horizon < 0
    THEN [kind |-> "ValueError", msg |-> "horizon must be >= 1"]
    ELSE [ kind    |-> "SplitData",
           X_train |-> iloc_head(X_of(df_feat), horizon),
           X_test  |-> iloc_tail(X_of(df_feat), horizon),
           y_train |-> iloc_head(y_of(df_feat), horizon),
           y_test  |-> iloc_tail(y_of(df_feat), horizon) ]

split_train_test(df_feat, horizon) ==
    IF horizon <= 0
    THEN [kind |-> "ValueError", msg |-> "horizon must be >= 1"]
    ELSE [ kind    |-> "SplitData",
           X_train |-> iloc_head(X_of(df_feat), horizon),
           X_test  |-> iloc_tail(X_of(df_feat), horizon),
           y_train |-> iloc_head(y_of(df_feat), horizon),
           y_test  |-> iloc_tail(y_of(df_feat), horizon) ]

-----------------------------------------------------------------------------
(* train_forecast_model *)

\* ts.shift(k).reindex(test_df.index): the shifted series at the holdout rows
shift_reindex(series, k, index) ==
    LET shifted == shift(series, k)
    IN  [j \in 1..Len(index) |-> shifted[index[j]]]

\* Series.fillna(other): NaN entries take the aligned entry of other
fillna(a, b) == [j \in 1..Len(a) |-> IF IsNaN(a[j]) THEN b[j] ELSE a[j]]

\* last year's value alone, with no fallback to the previous month
baseline_last_year_only(series, index) == shift_reindex(series, 12, index)

\* the fallback order swapped: previous month first, last year only if missing
baseline_prev_first(series, index) ==
    LET last_year  == shift_reindex(series, 12, index)
        prev_month == shift_reindex(series, 1, index)
    IN  fillna(prev_month, last_year)

\* Seasonal-naive baseline: last year same month, fallback to previous month
baseline(series, index) ==
    LET last_year  == shift_reindex(series, 12, index)
        prev_month == shift_reindex(series, 1, index)
    IN  fillna(last_year, prev_month)

RECURSIVE SeqMin(_)
SeqMin(s) ==
    IF Len(s) = 1 THEN s[1]
    ELSE LET m == SeqMin(Tail(s)) IN IF RLess(s[1], m) THEN s[1] ELSE m

RECURSIVE SeqMax(_)
SeqMax(s) ==
    IF Len(s) = 1 THEN s[1]
    ELSE LET m == SeqMax(Tail(s)) IN IF RLess(m, s[1]) THEN s[1] ELSE m

\* model.predict(X_test) of a fitted tree ensemble: opaque, but every output
\* lies between the smallest and the largest training target; `pick` selects
\* which of the two extremes the ensemble answers with
estimator_predict(y_train, X_test, pick) ==
    LET ys  == [k \in 1..Len(y_train) |-> y_train[k].Sales]
        out == IF pick = "lo" THEN SeqMin(ys) ELSE SeqMax(ys)
    IN  [j \in 1..Len(X_test) |-> out]

\* train_forecast_model(ts, model_path, model_name, horizon); has_xgb is
\* _HAS_XGB, pick the fitted ensemble's behaviour, dump_ok whether joblib.dump
\* could write model_path
train_forecast_model(series, m0, model_name, horizon, has_xgb, pick, dump_ok) ==
    LET df_feat == add_lag_features(series, m0, 3)
        sp      == split_train_test(df_feat, horizon)
    IN  IF sp.kind = "ValueError"
        THEN [kind |-> "ValueError", msg |-> sp.msg, persisted |-> FALSE]
        ELSE IF model_name = "xgb" /\ ~has_xgb
        THEN [kind |-> "RuntimeError", msg |-> "XGBoost not installed",
              persisted |-> FALSE]
        ELSE IF Len(sp.X_train) = 0
        THEN [kind |-> "ValueError", msg |-> "fit: 0 samples", persisted |-> FALSE]
        ELSE IF ~dump_ok
        THEN [kind |-> "OSError", msg |-> "joblib.dump", persisted |-> FALSE]
        ELSE LET preds == estimator_predict(sp.y_train, sp.X_test, pick)
                 index == [j \in 1..Len(sp.y_test) |-> sp.y_test[j].idx]
                 base  == baseline(series, index)
             IN  [ kind      |-> "trained",
                   model     |-> [variant |-> model_name, feature_names |-> TrainingNames],
                   persisted |-> TRUE,
                   test_df   |-> [j \in 1..Len(index) |->
                                    [ idx      |-> index[j],
                                      Actual   |-> sp.y_test[j].Sales,
                                      Forecast |-> preds[j],
                                      Baseline |-> base[j] ]] ]

-----------------------------------------------------------------------------
(* Evaluation metrics *)

\* positions of y_true selected by mask = (y_true != 0), in order
RECURSIVE mask_positions(_, _)
mask_positions(y_true, k) ==
    IF k > Len(y_true) THEN <<>>
    ELSE (IF y_true[k].n # 0 THEN <<k>> ELSE <<>>) \o mask_positions(y_true, k + 1)

\* mape with the mean taken over all len(y_true) points, not the masked ones
mape_mean_over_all(y_true, y_pred) ==
    LET pos   == mask_positions(y_true, 1)
        terms == [j \in 1..Len(pos) |->
                    RAbs(RDiv(RSub(y_true[pos[j]], y_pred[pos[j]]), y_true[pos[j]]))]
    IN  IF Len(pos) = 0 THEN NaN
        ELSE RMul(RDivInt(SeqSum(terms), Len(y_true)), F(100))

\* mape(y_true, y_pred)
mape(y_true, y_pred) ==
    LET pos   == mask_positions(y_true, 1)
        terms == [j \in 1..Len(pos) |->
                    RAbs(RDiv(RSub(y_true[pos[j]], y_pred[pos[j]]), y_true[pos[j]]))]
    IN  IF Len(pos) = 0 THEN NaN
        ELSE RMul(RDivInt(SeqSum(terms), Len(pos)), F(100))

-----------------------------------------------------------------------------
(* load_and_monthly_aggregate of eda_v1.2.py *)

\* A date is a month counted from the first month of the calendar (1, 2, ...)
\* and a day of that month.  NaT is the missing timestamp.
NaT == [m |-> 0, d |-> 0]

\* pd.to_datetime(cell, errors="coerce"): a cell that holds no date becomes NaT
to_datetime(cell) == IF cell.m >= 1 /\ cell.d >= 1 THEN cell ELSE NaT

\* the order of sort_values: by date, NaT last
DateKey(t) == IF t = NaT THEN 1000000 ELSE 32 * t.m + t.d

RECURSIVE InsertByDate(_, _)
InsertByDate(row, sorted) ==
    IF sorted = <<>> THEN <<row>>
    ELSE IF DateKey(row.date) < DateKey(Head(sorted).date)
         THEN <<row>> \o sorted
         ELSE <<Head(sorted)>> \o InsertByDate(row, Tail(sorted))

\* df.sort_values(date_col)
RECURSIVE sort_values(_)
sort_values(rows) ==
    IF rows = <<>> THEN <<>>
    ELSE InsertByDate(rows[Len(rows)], sort_values(SubSeq(rows, 1, Len(rows) - 1)))

\* the amounts of the rows dated in month m, in row order
AmountsIn(rows, m) ==
    LET InMonth(r) == r.date # NaT /\ r.date.m = m
        hit == SelectSeq(rows, InMonth)
    IN  [j \in 1..Len(hit) |-> hit[j].amount]

\* an aggregation that keeps only the months that have a record
resample_sum_observed_months(rows) ==
    LET dated == {j \in 1..Len(rows) : rows[j].date # NaT}
        first == CHOOSE m \in {rows[j].date.m : j \in dated} :
                     \A j \in dated : m <= rows[j].date.m
        last  == CHOOSE m \in {rows[j].date.m : j \in dated} :
                     \A j \in dated : m >= rows[j].date.m
        bins  == [p \in 1..(last - first + 1) |->
                    [stamp |-> [m |-> first + p - 1, d |-> 1],
                     value |-> SeqSum(AmountsIn(rows, first + p - 1))]]
        Observed(b) == \E j \in dated : rows[j].date.m = b.stamp.m
    IN  IF dated = {} THEN <<>> ELSE SelectSeq(bins, Observed)

\* .resample("MS").sum(): one bin per calendar month from the month of the
\* earliest timestamp to the month of the latest one, labelled by the first
\* day of the month; a bin sums the rows that fall in it, and a bin without
\* rows sums to 0.0.  Rows indexed by NaT fall in no bin.
resample_sum(rows) ==
    LET dated == {j \in 1..Len(rows) : rows[j].date # NaT}
        first == CHOOSE m \in {rows[j].date.m : j \in dated} :
                     \A j \in dated : m <= rows[j].date.m
        last  == CHOOSE m \in {rows[j].date.m : j \in dated} :
                     \A j \in dated : m >= rows[j].date.m
    IN  IF dated = {} THEN <<>>
        ELSE [p \in 1..(last - first + 1) |->
                [stamp |-> [m |-> first + p - 1, d |-> 1],
                 value |-> SeqSum(AmountsIn(rows, first + p - 1))]]

\* ts.dropna() of a series: keep, in order, the points that are not NaN
series_dropna(series) == SelectSeq(series, LAMBDA b : ~IsNaN(b.value))

\* load_and_monthly_aggregate(csv_path, date_col, target_col): file.columns
\* tells whether the CSV has its date and target columns, file.rows are its
\* records (date cell, amount)
load_and_monthly_aggregate(file) ==
    IF file.columns = "no_date"
    THEN [kind |-> "ValueError", msg |-> "CSV missing required date column"]
    ELSE IF file.columns = "no_target"
    THEN [kind |-> "ValueError", msg |-> "CSV missing required target column"]
    ELSE LET parsed == [j \in 1..Len(file.rows) |->
                           [date   |-> to_datetime(file.rows[j].date),
                            amount |-> file.rows[j].amount]]
         IN  [kind |-> "series", ts |-> series_dropna(resample_sum(sort_values(parsed)))]

-----------------------------------------------------------------------------
(* main of eda_v1.2.py *)

\* the margin of `len(ts) < args.horizon + 15`
MinExtraPoints == 15

\* a length check against the horizon alone
too_short_no_margin(n, horizon) == n < horizon

\* `if len(ts) < args.horizon + 15:`
too_short(n, horizon) == n < horizon + MinExtraPoints

\* a run of main that stopped with an exception
Failed(kind, msg, reached_split, fitted) ==
    [ kind |-> kind, msg |-> msg, reached_split |-> reached_split,
      fitted |-> fitted, persisted |-> FALSE, metrics |-> NotRun ]

\* main(): load_and_monthly_aggregate (columns tells whether the CSV has its
\* date and target columns; the aggregated series is `series`), the length
\* check, train_forecast_model, then the metrics.  MAPE is the metric kept;
\* sMAPE, MAE, RMSE, the plot and the HTML report follow it and change
\* nothing else.
main(series, m0, columns, model_name, horizon, has_xgb, pick, dump_ok) ==
    IF columns = "no_date"
    THEN Failed("ValueError", "CSV missing required date column", FALSE, FALSE)
    ELSE IF columns = "no_target"
    THEN Failed("ValueError", "CSV missing required target column", FALSE, FALSE)
    ELSE IF too_short(Len(series), horizon)
    THEN Failed("RuntimeError", "Time series too short", FALSE, FALSE)
    ELSE LET out == train_forecast_model(series, m0, model_name, horizon,
                                         has_xgb, pick, dump_ok)
         IN  IF out.kind # "trained"
             THEN Failed(out.kind, out.msg, TRUE, out.kind = "OSError")
             ELSE LET y_true == [j \in 1..Len(out.test_df) |-> out.test_df[j].Actual]
                      y_hat  == [j \in 1..Len(out.test_df) |-> out.test_df[j].Forecast]
                      y_base == [j \in 1..Len(out.test_df) |-> out.test_df[j].Baseline]
                  IN  [ kind |-> "report", reached_split |-> TRUE, fitted |-> TRUE,
                        persisted |-> TRUE, model |-> out.model,
                        test_df |-> out.test_df,
                        metrics |-> [ Baseline |-> [MAPE |-> mape(y_true, y_base)],
                                      Model    |-> [MAPE |-> mape(y_true, y_hat)] ] ]

-----------------------------------------------------------------------------
(* Bounds of the model *)

MaxN     == 17     \* longest series
MaxH     == 4      \* largest horizon tried
MaxNames == 2      \* longest free-form expected-name list
MaxPts   == 2      \* most points handed to a metric
RoundTripLen == 24 \* length of the series trained on and then served from

\* gap-free monthly series of n points: month p sells 100*p, except month z
\* (if any), which sells nothing (resample().sum() gives 0.0 there)
SeriesOf(n, z) == [p \in 1..n |-> IF p = z THEN F(0) ELSE F(100 * p)]

\* gap-free monthly series of n points that sells 100 every month
FlatSeries(n) == [p \in 1..n |-> F(100)]

SeriesInputs ==
    UNION { {SeriesOf(n, z) : z \in 0..n} \cup {FlatSeries(n)} : n \in 0..MaxN }

\* the series starts in January or late in the year (the month column wraps)
StartMonths == {1, 11}

Horizons == (-1)..MaxH

-----------------------------------------------------------------------------
(* The training pipeline as a state machine: a series is given, then the     *)
(* pipeline functions are applied to it.                                      *)

FeatIdle  == f_in = NotRun /\ f_out = NotRun
ConcIdle  == thr = <<>> /\ loads = 0
MetricIdle == m_in = NotRun /\ m_out = NotRun
LoadIdle == csv = NotRun /\ l_out = NotRun
TrainIdle == ts = <<>> /\ ts_start = 1 /\ HAS_XGB = FALSE /\ t_res = NotRun
ServeIdle ==
    /\ version = "v1_3" /\ disk = <<>> /\ AVAILABLE = {} /\ CACHE = <<>>
    /\ served = 0 /\ req = NotRun /\ log_rows = <<>>

InitTrain ==
    /\ ts \in SeriesInputs
    /\ ts_start \in StartMonths
    /\ HAS_XGB \in BOOLEAN
    /\ t_res = NotRun
    /\ FeatIdle
    /\ ServeIdle
    /\ ConcIdle
    /\ MetricIdle
    /\ LoadIdle

AddLagFeatures ==
    /\ t_res = NotRun
    /\ t_res' = [op |-> "add_lag_features", out |-> add_lag_features(ts, ts_start, 3)]
    /\ UNCHANGED <<ts, ts_start, HAS_XGB, feat_vars, serve_vars, conc_vars, metric_vars, load_vars>>

SplitTrainTest(horizon) ==
    /\ t_res = NotRun
    /\ t_res' = [op |-> "split_train_test", horizon |-> horizon,
                 out |-> split_train_test(add_lag_features(ts, ts_start, 3), horizon)]
    /\ UNCHANGED <<ts, ts_start, HAS_XGB, feat_vars, serve_vars, conc_vars, metric_vars, load_vars>>

TrainForecastModel(model_name, horizon, pick, dump_ok) ==
    /\ t_res = NotRun
    /\ t_res' = [op |-> "train_forecast_model", horizon |-> horizon,
                 out |-> train_forecast_model(ts, ts_start, model_name, horizon,
                                              HAS_XGB, pick, dump_ok)]
    /\ UNCHANGED <<ts, ts_start, HAS_XGB, feat_vars, serve_vars, conc_vars, metric_vars, load_vars>>

\* one run of the script; a CSV without its columns is tried with one choice
\* of the other arguments, which are not looked at in that case
Main(columns, model_name, horizon, pick, dump_ok) ==
    /\ t_res = NotRun
    /\ columns = "ok" \/ (model_name = "xgb" /\ horizon = 1 /\ pick = "lo" /\ dump_ok)
    /\ t_res' = [op |-> "main", horizon |-> horizon, model_name |-> model_name,
                 columns |-> columns,
                 out |-> main(ts, ts_start, columns, model_name, horizon,
                              HAS_XGB, pick, dump_ok)]
    /\ UNCHANGED <<ts, ts_start, HAS_XGB, feat_vars, serve_vars, conc_vars, metric_vars, load_vars>>

NextTrain ==
    \/ AddLagFeatures
    \/ \E horizon \in Horizons : SplitTrainTest(horizon)
    \/ \E model_name \in {"rf", "xgb"}, horizon \in Horizons,
          pick \in {"lo", "hi"}, dump_ok \in BOOLEAN :
            TrainForecastModel(model_name, horizon, pick, dump_ok)
    \/ \E columns \in {"ok", "no_date", "no_target"}, model_name \in {"rf", "xgb"},
          horizon \in Horizons, pick \in {"lo", "hi"}, dump_ok \in BOOLEAN :
            Main(columns, model_name, horizon, pick, dump_ok)

SpecTrain == InitTrain /\ [][NextTrain]_vars

-----------------------------------------------------------------------------
(* Properties of the training pipeline (checked under SpecTrain) *)

df_feat_of_ts == add_lag_features(ts, ts_start, 3)

SplitRan == t_res # NotRun /\ t_res.op = "split_train_test"
TrainRan == t_res # NotRun /\ t_res.op = "train_forecast_model"
LagsRan  == t_res # NotRun /\ t_res.op = "add_lag_features"

IdxSet(rows) == {rows[k].idx : k \in 1..Len(rows)}

\* C3: for a feature table with more rows than horizon (horizon >= 1),
\* split_train_test returns as test exactly the last horizon rows in order and
\* as train exactly the rows before them: len(test) = horizon, the parts are
\* disjoint, train followed by test is the table, and X and y are cut at the
\* same boundary.
C3_SplitIsLastHorizonRows ==
    (SplitRan /\ t_res.horizon >= 1 /\ Len(df_feat_of_ts) > t_res.horizon) =>
        LET o == t_res.out
            h == t_res.horizon
            X == X_of(df_feat_of_ts)
            y == y_of(df_feat_of_ts)
            n == Len(X)
        IN  /\ o.kind = "SplitData"
            /\ Len(o.X_test) = h /\ Len(o.y_test) = h
            /\ Len(o.X_train) = n - h /\ Len(o.y_train) = n - h
            /\ \A j \in 1..h :
                  /\ o.X_test[j] = X[n - h + j]
                  /\ o.y_test[j] = y[n - h + j]
            /\ \A k \in 1..(n - h) :
                  /\ o.X_train[k] = X[k]
                  /\ o.y_train[k] = y[k]
            /\ IdxSet(o.X_train) \cap IdxSet(o.X_test) = {}
            /\ o.X_train \o o.X_test = X
            /\ o.y_train \o o.y_test = y

C3_Witness ==
    /\ SplitRan /\ t_res.horizon = 3 /\ Len(df_feat_of_ts) = 7
    /\ t_res.out.kind = "SplitData"
    /\ Len(t_res.out.X_train) = 4 /\ Len(t_res.out.X_test) = 3

\* C4 (as claimed): split_train_test fails with a configuration error whenever
\* horizon >= number of rows, so no split with an empty training part is
\* ever returned.
C4_FailsWhenHorizonCoversTable ==
    (SplitRan /\ t_res.horizon >= Len(df_feat_of_ts)) =>
        /\ t_res.out.kind = "ValueError"
        /\ ~(t_res.out.kind = "SplitData" /\ Len(t_res.out.X_train) = 0)

\* C5: split_train_test fails with a configuration error for every horizon < 1,
\* before any row is assigned to train or test.
C5_FailsWhenHorizonBelowOne ==
    (SplitRan /\ t_res.horizon < 1) =>
        /\ t_res.out.kind = "ValueError"
        /\ DOMAIN t_res.out \cap {"X_train", "X_test", "y_train", "y_test"} = {}

C5_Witness ==
    /\ SplitRan /\ t_res.horizon = 0 /\ Len(df_feat_of_ts) > 0
    /\ t_res.out.kind = "ValueError"

\* the calendar month of the point at position p, stated by congruence
IsCalendarMonthOf(m, m0, p) == m \in 1..12 /\ (m - m0 - (p - 1)) % 12 = 0

\* C9: for a gap-free series of n points without missing values,
\* add_lag_features(ts, 3) returns exactly the rows of positions 4..n in
\* order (none when n <= 3); the row at t has Sales = value(t),
\* lag_i = value(t - i) for i = 1, 2, 3 and month = calendar month of t.
C9_LagRowsArePositionsFourOn ==
    LagsRan =>
        LET out == t_res.out
            n   == Len(ts)
        IN  /\ Len(out) = (IF n <= 3 THEN 0 ELSE n - 3)
            /\ \A k \in 1..Len(out) :
                  /\ out[k].idx = k + 3
                  /\ out[k].Sales = ts[k + 3]
                  /\ DOMAIN out[k].lag = 1..3
                  /\ \A i \in 1..3 : out[k].lag[i] = ts[k + 3 - i]
                  /\ IsCalendarMonthOf(out[k].month, ts_start, k + 3)

C9_Witness ==
    /\ LagsRan /\ Len(ts) = 6 /\ ts_start = 11 /\ ts[5] = F(0)
    /\ Len(t_res.out) = 3
    /\ t_res.out[1].idx = 4 /\ t_res.out[1].month = 2
    /\ t_res.out[3].lag = <<F(0), F(400), F(300)>>

\* C10: for each holdout month t the baseline is the series value exactly 12
\* periods before t when it exists, and otherwise the value 1 period before t.
C10_BaselineIsSeasonalNaive ==
    (TrainRan /\ t_res.out.kind = "trained") =>
        \A j \in 1..Len(t_res.out.test_df) :
            LET t == t_res.out.test_df[j].idx
            IN  t_res.out.test_df[j].Baseline =
                    (IF t - 12 >= 1 THEN ts[t - 12] ELSE ts[t - 1])

\* January of year 2 gets January of year 1 (100), not December (1200); the
\* same run also holds a month without a 12-month lookback
C10_Witness ==
    /\ TrainRan /\ t_res.out.kind = "trained" /\ ts_start = 1
    /\ Len(ts) >= 13
    /\ ts[1] = F(100) /\ ts[12] = F(1200)
    /\ \E j \in 1..Len(t_res.out.test_df) :
          /\ t_res.out.test_df[j].idx = 13
          /\ t_res.out.test_df[j].Baseline = F(100)
    /\ \E j \in 1..Len(t_res.out.test_df) :
          /\ t_res.out.test_df[j].idx = 12
          /\ t_res.out.test_df[j].Baseline = ts[11]

-----------------------------------------------------------------------------
(* Training followed by serving-time alignment: a model is trained on a      *)
(* series, then the row of each holdout month is rebuilt the way predict     *)
(* builds it, from the three preceding values, the month and the names the   *)
(* trained model carries.                                                    *)

RoundTripSeries == {SeriesOf(RoundTripLen, z) : z \in 0..RoundTripLen}

InitRound ==
    /\ ts \in RoundTripSeries
    /\ ts_start \in StartMonths
    /\ HAS_XGB = FALSE
    /\ t_res = NotRun
    /\ FeatIdle
    /\ ServeIdle
    /\ ConcIdle
    /\ MetricIdle
    /\ LoadIdle

RoundTrip(ver, horizon) ==
    /\ t_res = NotRun
    /\ \E out \in {train_forecast_model(ts, ts_start, "rf", horizon, HAS_XGB, "lo", TRUE)} :
          /\ out.kind = "trained"
          /\ \E X_test \in {split_train_test(add_lag_features(ts, ts_start, 3), horizon).X_test} :
                t_res' = [ op |-> "round_trip", ver |-> ver, horizon |-> horizon,
                           names |-> out.model.feature_names,
                           index |-> [j \in 1..Len(X_test) |-> X_test[j].idx],
                           bulk |-> [j \in 1..Len(X_test) |-> row_values(X_test[j])],
                           inference |-> [j \in 1..Len(X_test) |->
                               build_features_as_in_training(ver,
                                   ts[X_test[j].idx - 1], ts[X_test[j].idx - 2],
                                   ts[X_test[j].idx - 3],
                                   calendar_month(ts_start, X_test[j].idx),
                                   out.model.feature_names)] ]
    /\ UNCHANGED <<ts, ts_start, HAS_XGB, feat_vars, serve_vars, conc_vars, metric_vars, load_vars>>

NextRound == \E ver \in {"v1_3", "v1_5"}, horizon \in 1..MaxH : RoundTrip(ver, horizon)

SpecRound == InitRound /\ [][NextRound]_vars

RoundRan == t_res # NotRun /\ t_res.op = "round_trip"

\* position of a name in the trained model's feature names (0: not there)
ColumnOf(name) ==
    IF \E c \in 1..Len(t_res.names) : t_res.names[c] = name
    THEN CHOOSE c \in 1..Len(t_res.names) : t_res.names[c] = name
    ELSE 0

\* C16: after training on a 24-point series, for each holdout month t (the
\* last 3 with horizon 3) the inference row built from value(t-1),
\* value(t-2), value(t-3), month(t) and the trained model's feature names
\* (lag_1, lag_2, lag_3, month, roll_mean_3, roll_mean_6) has the same
\* lag_1, lag_2, lag_3 and month values as the bulk table's row for t, in the
\* same columns.
C16_InferenceRowMatchesBulkRow ==
    RoundRan =>
        /\ t_res.names = <<n_lag_1, n_lag_2, n_lag_3, n_month, n_roll_mean_3, n_roll_mean_6>>
        /\ Len(t_res.bulk) = t_res.horizon
        /\ \A j \in 1..t_res.horizon :
              /\ t_res.index[j] = Len(ts) - t_res.horizon + j
              /\ Len(t_res.inference[j]) = Len(t_res.bulk[j])
              /\ \A name \in {n_lag_1, n_lag_2, n_lag_3, n_month} :
                    /\ ColumnOf(name) \in 1..4
                    /\ t_res.inference[j][ColumnOf(name)] = t_res.bulk[j][ColumnOf(name)]
              /\ t_res.bulk[j][1] = ts[t_res.index[j] - 1]
              /\ t_res.bulk[j][2] = ts[t_res.index[j] - 2]
              /\ t_res.bulk[j][3] = ts[t_res.index[j] - 3]

\* horizon 3 on 24 points starting in November: months 22..24 are August to
\* October of the second year; row 22 has lags 2100, 2000, 1900
C16_Witness ==
    /\ RoundRan /\ Len(ts) = 24 /\ ts_start = 11 /\ t_res.horizon = 3
    /\ t_res.ver = "v1_5"
    /\ t_res.index = <<22, 23, 24>>
    /\ t_res.inference[1] = <<F(2100), F(2000), F(1900), F(8), F(2000), F(2000)>>
    /\ t_res.bulk[1][4] = F(8)

-----------------------------------------------------------------------------
(* Feature alignment as a state machine: the arguments are given, then       *)
(* _build_features_as_in_training is applied to them.                        *)

n_LAG_1       == <<"L","A","G","_","1">>
n_Month       == <<"M","o","n","t","h">>
n_unknown_col == <<"u","n","k","n","o","w","n","_","c","o","l">>

\* names a persisted estimator may expose
NameUniverse == {n_l1, n_l2, n_LAG_1, n_lag3, n_Month, n_roll_mean_6, n_sma3, n_unknown_col}

RECURSIVE SeqsUpTo(_, _)
SeqsUpTo(S, k) ==
    IF k = 0 THEN {<<>>}
    ELSE LET prev == SeqsUpTo(S, k - 1)
         IN  prev \cup {Append(q, x) : q \in prev, x \in S}

NameLists ==
    SeqsUpTo(NameUniverse, MaxNames) \cup {TrainingNames, <<n_l1, n_l2, n_unknown_col>>}

\* (lag1, lag2, lag3) of a request
LagTriples ==
    { <<F(10), F(20), F(30)>>, <<F(1), F(1), F(2)>>,
      <<Rat(5, 2), F(0), F(-7)>>, <<Rat(1001, 1000), Rat(1, 8), F(3)>> }

Versions == {"v1_3", "v1_5"}

InitFeat ==
    /\ f_in \in [ver : Versions, lags : LagTriples, month : 1..12, names : NameLists]
    /\ f_out = NotRun
    /\ TrainIdle
    /\ ServeIdle
    /\ ConcIdle
    /\ MetricIdle
    /\ LoadIdle

BuildFeatures ==
    /\ f_out = NotRun
    /\ f_out' = [row |-> build_features_as_in_training(
                            f_in.ver, f_in.lags[1], f_in.lags[2], f_in.lags[3],
                            f_in.month, f_in.names)]
    /\ UNCHANGED <<f_in, train_vars, serve_vars, conc_vars, metric_vars, load_vars>>

NextFeat == BuildFeatures

SpecFeat == InitFeat /\ [][NextFeat]_vars

-----------------------------------------------------------------------------
(* Properties of feature alignment (checked under SpecFeat) *)

FeatRan == f_out # NotRun

\* two characters equal up to letter case
SameCharIgnoringCase(a, b) ==
    \/ a = b
    \/ \E i \in 1..26 : {a, b} = {UpperChars[i], LowerChars[i]}

\* two names equal up to letter case
SameIgnoringCase(a, b) ==
    /\ Len(a) = Len(b)
    /\ \A i \in 1..Len(a) : SameCharIgnoringCase(a[i], b[i])

Matches(name, keys) == \E k \in keys : SameIgnoringCase(name, k)

\* the rolling-mean spellings each serving module's table knows
Roll3Keys(ver) ==
    IF ver = "v1_3" THEN {n_roll_mean_3, n_rollmean3, n_sma3, n_avg3, n_mean3}
                    ELSE {n_roll_mean_3}
Roll6Keys(ver) ==
    IF ver = "v1_3" THEN {n_roll_mean_6, n_rollmean6, n_sma6, n_avg6, n_mean6}
                    ELSE {n_roll_mean_6}

LagMean(lags) == RDivInt(SeqSum(lags), 3)

\* what the alias table gives for one expected name
AliasValue(in, name) ==
    IF Matches(name, {n_lag_1, n_lag1, n_l1}) THEN in.lags[1]
    ELSE IF Matches(name, {n_lag_2, n_lag2, n_l2}) THEN in.lags[2]
    ELSE IF Matches(name, {n_lag_3, n_lag3, n_l3}) THEN in.lags[3]
    ELSE IF Matches(name, {n_month}) THEN F(in.month)
    ELSE IF Matches(name, Roll3Keys(in.ver)) THEN LagMean(in.lags)
    ELSE IF Matches(name, Roll6Keys(in.ver)) THEN LagMean(in.lags)
    ELSE F(0)

\* C6: for a non-empty expected-name list the row has one value per name, in
\* the list's order: the alias table's value for the name compared
\* case-insensitively, and 0.0 for a name the table does not resolve.
C6_RowFollowsAliasTable ==
    (FeatRan /\ f_in.names # <<>>) =>
        /\ Len(f_out.row) = Len(f_in.names)
        /\ \A i \in 1..Len(f_in.names) : f_out.row[i] = AliasValue(f_in, f_in.names[i])

C6_Witness ==
    /\ FeatRan
    /\ f_in.names = <<n_l1, n_l2, n_unknown_col>>
    /\ f_in.lags = <<F(10), F(20), F(30)>>
    /\ f_out.row = <<F(10), F(20), F(0)>>

\* C24: for the same lags, month and expected-name list the
\* _build_features_as_in_training of api_v1_3 and of api_v1_5 return the
\* same row, for every name list, the rolling-mean aliases (rollmean3,
\* sma3, avg6, mean6, ...) included.
C24_BothModulesAlignAlike ==
    FeatRan =>
        build_features_as_in_training("v1_3", f_in.lags[1], f_in.lags[2], f_in.lags[3],
                                      f_in.month, f_in.names)
          = build_features_as_in_training("v1_5", f_in.lags[1], f_in.lags[2], f_in.lags[3],
                                          f_in.month, f_in.names)

\* C7: with an empty expected-name list the row is exactly [lag1, lag2, lag3],
\* whatever the month.
C7_EmptyNamesGiveThreeLags ==
    (FeatRan /\ f_in.names = <<>>) => f_out.row = f_in.lags

C7_Witness ==
    /\ FeatRan /\ f_in.names = <<>> /\ f_in.month = 7
    /\ f_out.row = <<F(1), F(1), F(2)>>

\* C8: with expected names exactly [lag_1, lag_2, lag_3, month, roll_mean_3,
\* roll_mean_6] the row is [lag1, lag2, lag3, month, m, m], m the mean of the
\* three lags.
C8_TrainingLayoutRow ==
    (FeatRan /\ f_in.names = TrainingNames) =>
        f_out.row = << f_in.lags[1], f_in.lags[2], f_in.lags[3], F(f_in.month),
                       LagMean(f_in.lags), LagMean(f_in.lags) >>

C8_Witness ==
    /\ FeatRan /\ f_in.names = TrainingNames
    /\ f_in.lags = <<F(1), F(1), F(2)>> /\ f_in.month = 12
    /\ f_out.row = <<F(1), F(1), F(2), F(12), Rat(4, 3), Rat(4, 3)>>

-----------------------------------------------------------------------------
(* Metrics as a state machine: y_true and y_pred are given, then mape is     *)
(* applied to them.                                                          *)

ActualValues    == {F(0), F(100), F(-50)}
PredictedValues == {F(0), F(100), F(-50), F(80)}

MetricInputs ==
    UNION { [y_true : [1..n -> ActualValues], y_pred : [1..n -> PredictedValues]] :
            n \in 0..MaxPts }

InitMetric ==
    /\ m_in \in MetricInputs
    /\ m_out = NotRun
    /\ FeatIdle
    /\ TrainIdle
    /\ ServeIdle
    /\ ConcIdle
    /\ LoadIdle

Mape ==
    /\ m_out = NotRun
    /\ m_out' = [value |-> mape(m_in.y_true, m_in.y_pred)]
    /\ UNCHANGED <<m_in, feat_vars, train_vars, serve_vars, conc_vars, load_vars>>

NextMetric == Mape

SpecMetric == InitMetric /\ [][NextMetric]_vars

-----------------------------------------------------------------------------
(* Loading as a state machine: a CSV file is given, then                     *)
(* load_and_monthly_aggregate is applied to it.                              *)

MaxRecs == 3       \* most records in a file

\* date cells: text that is no date, and days in months 1, 2, 4 and 14 (so a
\* file can span more than a year and leave months without any record)
DateCells == {[m |-> 0, d |-> 0], [m |-> 1, d |-> 15], [m |-> 2, d |-> 1],
              [m |-> 4, d |-> 15], [m |-> 14, d |-> 1]}

Amounts == {F(5), F(7)}

\* files with both columns hold up to MaxRecs records, of which (if there is
\* any record) at least one carries a date; files lacking a column
CsvInputs ==
    { f \in [columns : {"ok"},
             rows : UNION { [1..n -> [date : DateCells, amount : Amounts]] :
                            n \in 0..MaxRecs }] :
        f.rows = <<>> \/ \E j \in 1..Len(f.rows) : f.rows[j].date.m >= 1 }
    \cup [columns : {"no_date", "no_target"}, rows : {<<>>}]

InitLoad ==
    /\ csv \in CsvInputs
    /\ l_out = NotRun
    /\ FeatIdle
    /\ TrainIdle
    /\ ServeIdle
    /\ ConcIdle
    /\ MetricIdle

Load ==
    /\ l_out = NotRun
    /\ l_out' = load_and_monthly_aggregate(csv)
    /\ UNCHANGED <<csv, feat_vars, train_vars, serve_vars, conc_vars, metric_vars>>

NextLoad == Load

SpecLoad == InitLoad /\ [][NextLoad]_vars

LoadRan == l_out # NotRun /\ l_out.kind = "series"

\* the months of the dated records of the file
DatedMonths == {csv.rows[j].date.m : j \in {i \in 1..Len(csv.rows) : csv.rows[i].date.m >= 1}}

\* the sum of the amounts of the records of the file dated in month m
MonthTotal(m) ==
    SumOver([j \in 1..Len(csv.rows) |-> csv.rows[j].amount],
            {j \in 1..Len(csv.rows) : csv.rows[j].date.m = m})

\* the positional shifts the feature builder and the baseline use
Shifts == {1, 12}

\* C25: the series load_and_monthly_aggregate returns has strictly increasing
\* month-start timestamps, exactly one point for every calendar month from
\* the month of the earliest dated record to the month of the latest, each
\* point being the sum of the amounts of the records dated in that month; a
\* month without records is present with 0.0.  So the point k positions
\* before a point is the point k calendar months before it (k = 1, 12).
C25_OnePointPerCalendarMonth ==
    LoadRan =>
        LET s == l_out.ts
        IN  /\ \A p \in 1..Len(s) : s[p].stamp.d = 1
            /\ \A p \in 1..(Len(s) - 1) : s[p + 1].stamp.m = s[p].stamp.m + 1
            /\ DatedMonths # {} =>
                   /\ Len(s) >= 1
                   /\ \A m \in DatedMonths : s[1].stamp.m <= m /\ m <= s[Len(s)].stamp.m
                   /\ s[1].stamp.m \in DatedMonths
                   /\ s[Len(s)].stamp.m \in DatedMonths
            /\ \A p \in 1..Len(s) : s[p].value = MonthTotal(s[p].stamp.m)
            /\ \A p \in 1..Len(s) : s[p].stamp.m \notin DatedMonths => s[p].value = F(0)
            /\ \A p \in 1..Len(s) : \A k \in Shifts :
                   p - k >= 1 => s[p - k].stamp.m = s[p].stamp.m - k

\* a file with an undated record and records in months 1 and 14: the series
\* has 14 points, the twelve months in between are present with 0.0, and the
\* point 12 positions before the last one is the month 12 months before it
C25_Witness ==
    /\ LoadRan
    /\ csv.rows = <<[date |-> [m |-> 14, d |-> 1], amount |-> F(5)],
                    [date |-> [m |-> 0, d |-> 0], amount |-> F(7)],
                    [date |-> [m |-> 1, d |-> 15], amount |-> F(7)]>>
    /\ Len(l_out.ts) = 14
    /\ l_out.ts[1].value = F(7) /\ l_out.ts[14].value = F(5)
    /\ l_out.ts[13].value = F(0)
    /\ l_out.ts[14 - 12].stamp = [m |-> 2, d |-> 1]

-----------------------------------------------------------------------------
(* Properties of the metrics (checked under SpecMetric) *)

MetricRan == m_out # NotRun

NonZeroPoints == {k \in 1..Len(m_in.y_true) : m_in.y_true[k] # F(0)}

\* 100 * |actual - predicted| / |actual| at point k
PctError(k) ==
    RMul(F(100), RDiv(RAbs(RSub(m_in.y_true[k], m_in.y_pred[k])), RAbs(m_in.y_true[k])))

PerfectForecast ==
    /\ Len(m_in.y_true) >= 1
    /\ \A k \in 1..Len(m_in.y_true) :
          m_in.y_pred[k] = m_in.y_true[k] /\ m_in.y_true[k] # F(0)

\* C11: mape is the average of 100*|actual - predicted|/|actual| over exactly
\* the points whose actual is non-zero, and NaN when there is no such point;
\* so a forecast equal to the actual at every point of a non-empty holdout
\* with no zero actual has mape exactly 0.0.
C11_MapeAveragesNonZeroActuals ==
    MetricRan =>
        /\ (NonZeroPoints = {}) => IsNaN(m_out.value)
        /\ (NonZeroPoints # {}) =>
              /\ ~IsNaN(m_out.value)
              /\ RMul(m_out.value, F(Cardinality(NonZeroPoints)))
                    = SumOver([k \in 1..Len(m_in.y_true) |->
                                 IF k \in NonZeroPoints THEN PctError(k) ELSE NaN],
                              NonZeroPoints)
        /\ PerfectForecast => m_out.value = F(0)

\* a two-point holdout with one zero actual and one missed non-zero actual
C11_Witness ==
    /\ MetricRan
    /\ Len(m_in.y_true) = 2
    /\ Cardinality(NonZeroPoints) = 1
    /\ m_out.value # F(0)
    /\ ~IsNaN(m_out.value)

-----------------------------------------------------------------------------
(* The serving layer: model artifacts, _get_model, predict *)

Aliases == {"rf", "xgb"}

\* what a file reports/models/sales_forecast_<alias>.pkl may hold.  An
\* estimator is opaque; the model keeps what the serving code asks of it:
\* whether joblib.load succeeds, feature_names_in_ (sk_names = <<>> with sk
\* set: an attribute whose .tolist() raises), get_booster().feature_names,
\* the number of columns it was fit on, and whether predict raises.
Estimator(sk, sk_names, booster, booster_names, n_features, predict_raises) ==
    [ present |-> TRUE, load_ok |-> TRUE,
      has_feature_names_in |-> sk, feature_names_in |-> sk_names,
      has_get_booster |-> booster, booster_feature_names |-> booster_names,
      n_features |-> n_features, predict_raises |-> predict_raises ]

Absent      == [present |-> FALSE]
ArtCorrupt  == [present |-> TRUE, load_ok |-> FALSE]
ArtRF       == Estimator(TRUE, TrainingNames, FALSE, <<>>, 6, FALSE)    \* v1.2 train_rf on a DataFrame
ArtXGB      == Estimator(TRUE, TrainingNames, TRUE, TrainingNames, 6, FALSE)  \* v1.2 train_xgb
ArtNoNames  == Estimator(FALSE, <<>>, FALSE, <<>>, 6, FALSE)  \* fit on a bare array of 6 columns
ArtThreeCol == Estimator(FALSE, <<>>, FALSE, <<>>, 3, FALSE)  \* fit on a bare array of the 3 lags
ArtRaises   == Estimator(TRUE, TrainingNames, FALSE, <<>>, 6, TRUE)     \* predict forced to raise
ArtBadNames == Estimator(TRUE, <<>>, FALSE, <<>>, 6, FALSE)  \* feature_names_in_.tolist() raises

DiskStates ==
    { [a \in Aliases |-> IF a = "rf" THEN r ELSE x] :
        r \in {Absent, ArtCorrupt, ArtRF, ArtNoNames, ArtThreeCol, ArtRaises, ArtBadNames},
        x \in {Absent, ArtXGB} }

NoEntry == [present |-> FALSE]

\* Path.exists() at import time
discover(dsk) == {a \in Aliases : dsk[a].present}

\* a lookup that remembers a failed load: the alias gets an entry whose
\* predict raises, and later requests read it instead of loading again
get_model_caching_failure(name, avail, cache, dsk) ==
    IF name \notin avail
    THEN [kind |-> "raise", exc |-> "HTTPException", status |-> 404,
          cache |-> cache, loaded |-> FALSE]
    ELSE IF cache[name] = NoEntry
    THEN IF dsk[name].load_ok
         THEN [kind |-> "ok", est |-> dsk[name],
               cache |-> [cache EXCEPT ![name] = dsk[name]], loaded |-> TRUE]
         ELSE [kind |-> "raise", exc |-> "UnpicklingError", status |-> 0,
               cache |-> [cache EXCEPT ![name] = Estimator(FALSE, <<>>, FALSE, <<>>, 0, TRUE)],
               loaded |-> TRUE]
    ELSE [kind |-> "ok", est |-> cache[name], cache |-> cache, loaded |-> FALSE]

\* _get_model(name): the estimator or the exception, and the cache afterwards
get_model(name, avail, cache, dsk) ==
    IF name \notin avail
    THEN [kind |-> "raise", exc |-> "HTTPException", status |-> 404,
          cache |-> cache, loaded |-> FALSE]
    ELSE IF cache[name] = NoEntry
    THEN IF dsk[name].load_ok
         THEN [kind |-> "ok", est |-> dsk[name],
               cache |-> [cache EXCEPT ![name] = dsk[name]], loaded |-> TRUE]
         ELSE [kind |-> "raise", exc |-> "UnpicklingError", status |-> 0,
               cache |-> cache, loaded |-> TRUE]
    ELSE [kind |-> "ok", est |-> cache[name], cache |-> cache, loaded |-> FALSE]

\* the names part of _load_model_and_feature_names: feature_names_in_ first
\* (left empty when reading it raises: the inner except passes), then a
\* non-empty booster.feature_names overrides it
feature_names_of(est) ==
    LET sk == IF est.has_feature_names_in THEN est.feature_names_in ELSE <<>>
    IN  IF est.has_get_booster /\ est.booster_feature_names # <<>>
        THEN est.booster_feature_names
        ELSE sk

\* est.predict(X)[0]: raises on a row of the wrong width; otherwise the
\* estimator answers `pred_value`
est_predict(est, X, pred_value) ==
    IF est.predict_raises \/ Len(X) # est.n_features
    THEN [kind |-> "raise", exc |-> "ValueError"]
    ELSE [kind |-> "ok", yhat |-> pred_value]

\* 0.5 * l1 + 0.3 * l2 + 0.2 * l3
simple_baseline(l1, l2, l3) ==
    RAdd(RAdd(RMul(Rat(1, 2), l1), RMul(Rat(3, 10), l2)), RMul(Rat(1, 5), l3))

\* the body of predict's try block after _get_model has returned or raised
\* (`got`): feature names, the aligned row, est.predict
use_model(ver, got, lag1, lag2, lag3, month, pred_value) ==
    IF got.kind = "raise"
    THEN [kind |-> "raise", exc |-> got.exc, status |-> got.status,
          stage |-> "lookup", cache |-> got.cache, loaded |-> got.loaded]
    ELSE LET names == feature_names_of(got.est)
             X     == build_features_as_in_training(ver, lag1, lag2, lag3, month, names)
             out   == est_predict(got.est, X, pred_value)
         IN  IF out.kind = "raise"
             THEN [kind |-> "raise", exc |-> out.exc, status |-> 0,
                   stage |-> "predict", cache |-> got.cache, loaded |-> got.loaded]
             ELSE [kind |-> "ok", yhat |-> out.yhat, stage |-> "none",
                   cache |-> got.cache, loaded |-> got.loaded]

\* the body of predict's try block
try_model(ver, avail, cache, dsk, lag1, lag2, lag3, model, month, pred_value) ==
    use_model(ver, get_model(model, avail, cache, dsk), lag1, lag2, lag3, month, pred_value)

\* a handler that lets HTTP errors through (except HTTPException: raise)
except_all_but_http(exc) == exc \in {"UnpicklingError", "ValueError"}

\* `except Exception:` catches every exception the try block raises here:
\* fastapi's HTTPException derives from Exception, as do the load and
\* predict errors
except_Exception(exc) == exc \in {"HTTPException", "UnpicklingError", "ValueError"}

\* the value of yhat after the try/except, for an attempt that did not propagate
guarded_yhat(attempt, lag1, lag2, lag3) ==
    [ path |-> IF attempt.kind = "ok" THEN "model" ELSE "fallback",
      yhat |-> IF attempt.kind = "ok" THEN attempt.yhat
               ELSE simple_baseline(lag1, lag2, lag3) ]

\* the default month taken as now.month + 1, without the wrap to January
resolve_month_no_wrap(month, now_month) ==
    IF month = 0 THEN now_month + 1 ELSE month

\* month = (now.month % 12) + 1 when the request gives none (month = 0 here)
resolve_month(month, now_month) ==
    IF month = 0 THEN (now_month % 12) + 1 ELSE month

\* the log record filled with the rounded prediction of the response
finish_predict_logs_rounded(ver, g, lag1, lag2, lag3, model, used_month, commit_ok) ==
    LET rec == [model |-> model, lag1 |-> lag1, lag2 |-> lag2, lag3 |-> lag3,
                prediction |-> round2(g.yhat)]
    IN  IF ver = "v1_5"
        THEN [ resp |-> [status |-> 200, prediction |-> round2(g.yhat), model |-> model,
                         used_month |-> used_month, logged |-> commit_ok],
               new_rows |-> IF commit_ok THEN <<rec>> ELSE <<>>,
               log_attempted |-> TRUE ]
        ELSE [ resp |-> [status |-> 200, prediction |-> round2(g.yhat), model |-> model,
                         used_month |-> used_month],
               new_rows |-> <<>>, log_attempted |-> FALSE ]

\* the part of predict after yhat is known: the log record (api_v1_5 only)
\* and the response
finish_predict(ver, g, lag1, lag2, lag3, model, used_month, commit_ok) ==
    LET rec == [model |-> model, lag1 |-> lag1, lag2 |-> lag2, lag3 |-> lag3,
                prediction |-> g.yhat]
    IN  IF ver = "v1_5"
        THEN [ resp |-> [status |-> 200, prediction |-> round2(g.yhat), model |-> model,
                         used_month |-> used_month, logged |-> commit_ok],
               new_rows |-> IF commit_ok THEN <<rec>> ELSE <<>>,
               log_attempted |-> TRUE ]
        ELSE [ resp |-> [status |-> 200, prediction |-> round2(g.yhat), model |-> model,
                         used_month |-> used_month],
               new_rows |-> <<>>, log_attempted |-> FALSE ]

\* the check skipped: every request goes on to the model lookup
no_models_unchecked(avail) == FALSE

\* `if not AVAILABLE:` at the top of predict
no_models(avail) == avail = {}

\* predict from the except clause on, for the outcome `attempt` of its try
\* block: the error that propagates, or the log record and the response
answer(ver, attempt, lag1, lag2, lag3, model, used_month, commit_ok) ==
    IF attempt.kind = "raise" /\ ~except_Exception(attempt.exc)
    THEN [ resp |-> [status |-> IF attempt.status = 0 THEN 500 ELSE attempt.status,
                     detail |-> attempt.exc],
           cache |-> attempt.cache, new_rows |-> <<>>, path |-> "error",
           stage |-> attempt.stage, loaded |-> attempt.loaded,
           log_attempted |-> FALSE ]
    ELSE LET g   == guarded_yhat(attempt, lag1, lag2, lag3)
             fin == finish_predict(ver, g, lag1, lag2, lag3, model, used_month, commit_ok)
         IN  [ resp |-> fin.resp, cache |-> attempt.cache,
               new_rows |-> fin.new_rows, path |-> g.path,
               stage |-> attempt.stage, loaded |-> attempt.loaded,
               log_attempted |-> fin.log_attempted ]

\* the refusal of predict when no model was discovered
no_models_response(cache) ==
    [ resp |-> [status |-> 500, detail |-> "No models available"],
      cache |-> cache, new_rows |-> <<>>, path |-> "no_models",
      stage |-> "none", loaded |-> FALSE, log_attempted |-> FALSE ]

\* predict(lag1, lag2, lag3, model, month): the response, the cache and the
\* committed log rows afterwards.  now_month is datetime.utcnow().month,
\* pred_value the estimator's answer, commit_ok whether db.commit() succeeds.
predict(ver, avail, cache, dsk, lag1, lag2, lag3, model, month, now_month, pred_value, commit_ok) ==
    IF no_models(avail)
    THEN no_models_response(cache)
    ELSE LET used_month == resolve_month(month, now_month)
             attempt == try_model(ver, avail, cache, dsk, lag1, lag2, lag3, model,
                                  used_month, pred_value)
         IN  answer(ver, attempt, lag1, lag2, lag3, model, used_month, commit_ok)

-----------------------------------------------------------------------------
(* The serving process as a state machine: the module is imported (models    *)
(* discovered, cache empty), then predict requests are handled.              *)

MaxRequests == 2     \* requests handled in one run of the process

\* (lag1, lag2, lag3) of a request
RequestLags == { <<F(10), F(20), F(30)>>, <<Rat(1001, 1000), Rat(1, 8), F(3)>> }

\* the month parameter: 0 stands for "not supplied"
RequestMonths == {0, 5}

\* the clock (datetime.utcnow().month) when a request reads it: mid-year or
\* December; 0 stands for "not read"
ClockMonths == {6, 12}

\* the answer of a loaded estimator to a well-formed row
PredValues == { Rat(123449, 10000) }

Init ==
    /\ version \in Versions
    /\ disk \in DiskStates
    /\ AVAILABLE = discover(disk)
    /\ CACHE = [a \in Aliases |-> NoEntry]
    /\ served = 0
    /\ req = NotRun
    /\ log_rows = <<>>
    /\ FeatIdle
    /\ TrainIdle
    /\ ConcIdle
    /\ MetricIdle
    /\ LoadIdle

\* a request that looks at the model directory again before it is handled
Predict_rediscovering(lags, model, month, now_month, pred_value, commit_ok) ==
    /\ served < MaxRequests
    /\ AVAILABLE' = discover(disk)
    /\ \E r \in {predict(version, discover(disk), CACHE, disk, lags[1], lags[2], lags[3],
                         model, month, now_month, pred_value, commit_ok)} :
           /\ CACHE' = r.cache
           /\ log_rows' = log_rows \o r.new_rows
           /\ req' = [ lags |-> lags, model |-> model, month |-> month,
                       now_month |-> now_month, path |-> r.path, stage |-> r.stage,
                       loaded |-> r.loaded, log_attempted |-> r.log_attempted,
                       resp |-> r.resp ]
    /\ served' = served + 1
    /\ UNCHANGED <<version, disk, feat_vars, train_vars, conc_vars, metric_vars, load_vars>>

Predict(lags, model, month, now_month, pred_value, commit_ok) ==
    /\ served < MaxRequests
    /\ \E r \in {predict(version, AVAILABLE, CACHE, disk, lags[1], lags[2], lags[3],
                         model, month, now_month, pred_value, commit_ok)} :
           /\ CACHE' = r.cache
           /\ log_rows' = log_rows \o r.new_rows
           /\ req' = [ lags |-> lags, model |-> model, month |-> month,
                       now_month |-> now_month, path |-> r.path, stage |-> r.stage,
                       loaded |-> r.loaded, log_attempted |-> r.log_attempted,
                       resp |-> r.resp ]
    /\ served' = served + 1
    /\ UNCHANGED <<version, disk, AVAILABLE, feat_vars, train_vars, conc_vars, metric_vars, load_vars>>

Next ==
    \E lags \in RequestLags, model \in Aliases, month \in RequestMonths,
       pred_value \in PredValues,
       commit_ok \in (IF version = "v1_5" THEN BOOLEAN ELSE {FALSE}) :
        \E now_month \in (IF month = 0 THEN ClockMonths ELSE {0}) :
            Predict(lags, model, month, now_month, pred_value, commit_ok)

Spec == Init /\ [][Next]_vars

\* the same process with the clock read in any month of the year, for one
\* choice of lags and a database that accepts every commit
CalendarMonths == 1..12

NextClock ==
    \E lags \in {<<F(10), F(20), F(30)>>}, model \in Aliases, month \in RequestMonths,
       pred_value \in PredValues :
        \E now_month \in (IF month = 0 THEN CalendarMonths ELSE {0}) :
            Predict(lags, model, month, now_month, pred_value, version = "v1_5")

SpecClock == Init /\ [][NextClock]_vars

-----------------------------------------------------------------------------
(* The serving process while the training script runs beside it: main of     *)
(* eda_v1.2.py writes reports/models/sales_forecast_<alias>.pkl, creating    *)
(* or replacing the artifact of an alias.                                    *)

TrainedArtifact(a) == IF a = "rf" THEN ArtRF ELSE ArtXGB

WriteArtifact(a) ==
    /\ disk[a] # TrainedArtifact(a)
    /\ disk' = [disk EXCEPT ![a] = TrainedArtifact(a)]
    /\ UNCHANGED <<version, AVAILABLE, CACHE, served, req, log_rows,
                   feat_vars, train_vars, conc_vars, metric_vars, load_vars>>

NextLive ==
    \/ \E lags \in {<<F(10), F(20), F(30)>>}, model \in Aliases, month \in RequestMonths,
          pred_value \in PredValues :
           \E now_month \in (IF month = 0 THEN ClockMonths ELSE {0}) :
               Predict(lags, model, month, now_month, pred_value, version = "v1_5")
    \/ \E a \in Aliases : WriteArtifact(a)

SpecLive == Init /\ [][NextLive]_vars

\* the step handles a predict request
RequestStep == served' = served + 1

-----------------------------------------------------------------------------
(* The response contract (checked under Spec) *)

\* x is a whole number of hundredths no further than half a hundredth from y
IsRoundedTo2(x, y) ==
    /\ 100 % x.d = 0
    /\ ~RLess(Rat(1, 200), RAbs(RSub(x, y)))

Answered == req # NotRun /\ req.resp.status = 200

\* the lookup, the alignment and est.predict of the request can all succeed
AttemptSucceeds ==
    /\ req.model \in AVAILABLE
    /\ disk[req.model].load_ok
    /\ ~disk[req.model].predict_raises
    /\ \/ disk[req.model].feature_names_in # <<>>
       \/ disk[req.model].booster_feature_names # <<>>
       \/ disk[req.model].n_features = 3

\* C17: every non-error predict response carries the prediction rounded to
\* 2 decimal places, the model variant that was requested and a resolved
\* month in 1..12 that is the supplied month whenever one was supplied, on
\* the model path and on the fallback path alike; on the model path the
\* prediction is the estimator's output for the aligned row, not the
\* baseline.
C17_ResponseContract ==
    Answered =>
        /\ req.resp.model = req.model
        /\ req.resp.used_month \in 1..12
        /\ req.month # 0 => req.resp.used_month = req.month
        /\ req.path \in {"model", "fallback"}
        /\ req.path = "model" =>
              /\ AttemptSucceeds
              /\ \E v \in PredValues : IsRoundedTo2(req.resp.prediction, v)
        /\ req.path = "fallback" =>
              IsRoundedTo2(req.resp.prediction, simple_baseline(req.lags[1], req.lags[2], req.lags[3]))
        /\ AttemptSucceeds => req.path = "model"

\* the estimator answers 12.3449 for month 5: the response says 12.34, not
\* the baseline 17.0 of lags (10, 20, 30)
C17_Witness ==
    /\ Answered /\ req.path = "model" /\ req.month = 5
    /\ req.lags = <<F(10), F(20), F(30)>>
    /\ req.resp.used_month = 5 /\ req.resp.model = req.model
    /\ req.resp.prediction = Rat(1234, 100)

-----------------------------------------------------------------------------
(* Concurrent requests: predict is a plain `def` endpoint, so the framework  *)
(* runs requests on worker threads that share AVAILABLE and _CACHE.  Each    *)
(* thread steps through _get_model one access to shared state at a time.     *)
(* An object returned by joblib.load carries the number of the load that     *)
(* made it and whether that load has finished building it.                   *)

Threads == {"t1", "t2"}

MaxCalls == 3        \* requests started in one run of the process

ConcLags  == <<F(10), F(20), F(30)>>
ConcMonth == 5

ThreadIdle ==
    [ pc |-> "idle", model |-> "rf", entry_at_check |-> FALSE, obj |-> NoEntry,
      got |-> NotRun, out |-> NotRun ]

\* the object a load is building / has built from the artifact of alias a
Loading(a, id) == [present |-> TRUE, obj |-> id, complete |-> FALSE, est |-> disk[a]]
Loaded(o)      == [o EXCEPT !.complete = TRUE]

\* an entry stored in the cache as soon as its load starts
cache_placeholder_at_load_start(cache, name, o) == [cache EXCEPT ![name] = o]

\* the cache while joblib.load(AVAILABLE[name]) runs: the right-hand side of
\* `_CACHE[name] = joblib.load(...)` is evaluated first, nothing is stored yet
cache_at_load_start(cache, name, o) == cache

\* a lookup that never finds an entry
cache_miss_always(cache, name) == TRUE

\* `if name not in _CACHE:`
cache_miss(cache, name) == cache[name] = NoEntry

\* the artifacts tried under concurrency: none, one that does not load, one
\* that does (what a loaded estimator then answers plays no part in the cache)
ConcDiskStates == {d \in DiskStates : d["rf"] \in {Absent, ArtCorrupt, ArtRF}}

InitConc ==
    /\ version \in Versions
    /\ disk \in ConcDiskStates
    /\ AVAILABLE = discover(disk)
    /\ CACHE = [a \in Aliases |-> NoEntry]
    /\ served = 0
    /\ req = NotRun
    /\ log_rows = <<>>
    /\ thr = [t \in Threads |-> ThreadIdle]
    /\ loads = 0
    /\ FeatIdle
    /\ TrainIdle
    /\ MetricIdle
    /\ LoadIdle

\* a request arrives on thread t: `if not AVAILABLE` in predict, then
\* `if name not in AVAILABLE` in _get_model (AVAILABLE never changes)
StartRequest(t, model) ==
    /\ thr[t].pc \in {"idle", "done"}
    /\ served < MaxCalls
    /\ served' = served + 1
    /\ thr' = [thr EXCEPT ![t] =
                 IF no_models(AVAILABLE)
                 THEN [ThreadIdle EXCEPT !.pc = "done", !.model = model,
                                         !.out = no_models_response(CACHE).resp]
                 ELSE IF model \notin AVAILABLE
                 THEN [ThreadIdle EXCEPT !.pc = "finish", !.model = model,
                          !.got = [kind |-> "raise", exc |-> "HTTPException",
                                   status |-> 404, cache |-> CACHE, loaded |-> FALSE]]
                 ELSE [ThreadIdle EXCEPT !.pc = "check", !.model = model]]
    /\ UNCHANGED <<version, disk, AVAILABLE, CACHE, req, log_rows, loads,
                   feat_vars, train_vars, metric_vars, load_vars>>

\* `if name not in _CACHE:` on a miss joblib.load starts
CheckCache(t) ==
    /\ thr[t].pc = "check"
    /\ IF cache_miss(CACHE, thr[t].model)
       THEN /\ loads' = loads + 1
            /\ thr' = [thr EXCEPT ![t].pc = "loading",
                                  ![t].entry_at_check = CACHE[thr[t].model] # NoEntry,
                                  ![t].obj = Loading(thr[t].model, loads + 1)]
            /\ CACHE' = cache_at_load_start(CACHE, thr[t].model,
                                            Loading(thr[t].model, loads + 1))
       ELSE /\ thr' = [thr EXCEPT ![t].pc = "ret", ![t].entry_at_check = TRUE]
            /\ UNCHANGED <<CACHE, loads>>
    /\ UNCHANGED <<version, disk, AVAILABLE, served, req, log_rows,
                   feat_vars, train_vars, metric_vars, load_vars>>

\* joblib.load returns the finished estimator, or raises on a bad artifact
LoadDone(t) ==
    /\ thr[t].pc = "loading"
    /\ thr' = [thr EXCEPT ![t] =
                 IF disk[thr[t].model].load_ok
                 THEN [thr[t] EXCEPT !.pc = "store", !.obj = Loaded(thr[t].obj)]
                 ELSE [thr[t] EXCEPT !.pc = "finish", !.obj = NoEntry,
                          !.got = [kind |-> "raise", exc |-> "UnpicklingError",
                                   status |-> 0, cache |-> CACHE, loaded |-> TRUE]]]
    /\ UNCHANGED <<version, disk, AVAILABLE, CACHE, served, req, log_rows, loads,
                   feat_vars, train_vars, metric_vars, load_vars>>

\* `_CACHE[name] = <the loaded estimator>`
Store(t) ==
    /\ thr[t].pc = "store"
    /\ CACHE' = [CACHE EXCEPT ![thr[t].model] = thr[t].obj]
    /\ thr' = [thr EXCEPT ![t].pc = "ret"]
    /\ UNCHANGED <<version, disk, AVAILABLE, served, req, log_rows, loads,
                   feat_vars, train_vars, metric_vars, load_vars>>

\* `return _CACHE[name]`
Return(t) ==
    /\ thr[t].pc = "ret"
    /\ thr' = [thr EXCEPT ![t].pc = "finish",
                          ![t].got = [kind |-> "ok", held |-> CACHE[thr[t].model],
                                      est |-> CACHE[thr[t].model].est,
                                      cache |-> CACHE,
                                      loaded |-> thr[t].obj # NoEntry]]
    /\ UNCHANGED <<version, disk, AVAILABLE, CACHE, served, req, log_rows, loads,
                   feat_vars, train_vars, metric_vars, load_vars>>

\* the rest of predict on thread t: names, aligned row, est.predict, the
\* except clause, the log record (api_v1_5) and the response
Finish(t, pred_value, commit_ok) ==
    /\ thr[t].pc = "finish"
    /\ \E r \in {answer(version,
                         use_model(version, thr[t].got, ConcLags[1], ConcLags[2],
                                   ConcLags[3], ConcMonth, pred_value),
                         ConcLags[1], ConcLags[2], ConcLags[3], thr[t].model,
                         ConcMonth, commit_ok)} :
           /\ log_rows' = log_rows \o r.new_rows
           /\ thr' = [thr EXCEPT ![t].pc = "done", ![t].out = r.resp]
    /\ UNCHANGED <<version, disk, AVAILABLE, CACHE, served, req, loads,
                   feat_vars, train_vars, metric_vars, load_vars>>

NextConc ==
    \E t \in Threads :
        \/ \E model \in Aliases : StartRequest(t, model)
        \/ CheckCache(t)
        \/ LoadDone(t)
        \/ Store(t)
        \/ Return(t)
        \/ \E pred_value \in PredValues,
              commit_ok \in (IF version = "v1_5" THEN BOOLEAN ELSE {FALSE}) :
                Finish(t, pred_value, commit_ok)

SpecConc == InitConc /\ [][NextConc]_vars

-----------------------------------------------------------------------------
(* Properties of the serving layer (checked under Spec) *)

Handled == req # NotRun

\* 0.5*lag1 + 0.3*lag2 + 0.2*lag3, as (5*lag1 + 3*lag2 + 2*lag3) / 10
BaselineOf(lags) ==
    RDivInt(RAdd(RAdd(RMul(F(5), lags[1]), RMul(F(3), lags[2])), RMul(F(2), lags[3])), 10)

\* the request's attempt at a model prediction cannot succeed: the alias was
\* not discovered, the artifact does not load, the estimator's predict raises,
\* or no names can be read from the estimator and it was not fit on 3 columns
AttemptFails ==
    \/ req.model \notin AVAILABLE
    \/ ~disk[req.model].load_ok
    \/ disk[req.model].predict_raises
    \/ /\ disk[req.model].feature_names_in = <<>>
       /\ disk[req.model].booster_feature_names = <<>>
       /\ disk[req.model].n_features # 3

\* C1: while at least one model was discovered, a failure during model lookup
\* (an alias that was not discovered included), feature alignment or
\* estimator.predict ends in a successful response whose prediction is
\* round(0.5*lag1 + 0.3*lag2 + 0.2*lag3, 2); no failure reaches the caller.
C1_FailureFallsBackToBaseline ==
    (Handled /\ AVAILABLE # {}) =>
        /\ req.resp.status = 200
        /\ (AttemptFails \/ req.stage # "none") =>
              /\ req.path = "fallback"
              /\ req.resp.prediction = round2(BaselineOf(req.lags))

\* a request for an alias that was not discovered, lags (10, 20, 30): 17.0
C1_Witness ==
    /\ Handled /\ AVAILABLE = {"rf"} /\ req.model = "xgb"
    /\ req.lags = <<F(10), F(20), F(30)>>
    /\ req.stage = "lookup"
    /\ req.resp.status = 200 /\ req.resp.prediction = F(17)

C12_DefaultMonthIsNextMonth ==
    (Handled /\ AVAILABLE # {} /\ req.month = 0) =>
        /\ req.now_month \in 1..11 => req.resp.used_month = req.now_month + 1
        /\ req.now_month = 12 => req.resp.used_month = 1
        /\ req.resp.used_month \in 1..12

\* a request without a month handled in December uses January
C12_Witness ==
    /\ Handled /\ AVAILABLE # {} /\ req.month = 0
    /\ req.now_month = 12 /\ req.resp.used_month = 1

-----------------------------------------------------------------------------
(* Properties of the shared cache under concurrent requests (SpecConc) *)

\* thread t takes the step of _get_model that leaves `from` for `to`
Steps(t, from, to) == thr[t].pc = from /\ thr'[t].pc = to

\* _get_model returns on thread t what the cache holds for the alias
ReturnsCached(t) ==
    Steps(t, "ret", "finish") =>
        /\ CACHE[thr[t].model] # NoEntry
        /\ thr'[t].got.kind = "ok"
        /\ thr'[t].got.held = CACHE[thr[t].model]

\* a load starts only in a _get_model call that finds no entry for its alias
LoadsOnlyOnMiss ==
    loads' # loads =>
        \E t \in Threads :
            Steps(t, "check", "loading") /\ CACHE[thr[t].model] = NoEntry

\* a call that found an entry when it looked holds no load of its own
NoLoadAfterEntrySeen == \A t \in Threads : thr'[t].entry_at_check => thr'[t].obj = NoEntry

\* C13 as stated: the cache loads lazily on the first _get_model call for an
\* alias; once an alias has an entry every later call returns that same
\* cached estimator without loading again, and no operation ever removes or
\* replaces an existing entry.
C13_EntryNeverReplaced ==
    [][ /\ LoadsOnlyOnMiss
        /\ NoLoadAfterEntrySeen
        /\ \A t \in Threads : ReturnsCached(t)
        /\ \A a \in Aliases : CACHE[a] # NoEntry => CACHE'[a] = CACHE[a] ]_vars

\* C13 (amended): the cache loads lazily on the first _get_model call for an
\* alias; a call that finds an entry returns the estimator then cached
\* without loading; an entry is never removed, and it changes only when a
\* call that had found no entry stores the estimator it loaded itself
\* (concurrent first accesses: the last writer wins).
C13_EntryKeptAndReused ==
    [][ /\ LoadsOnlyOnMiss
        /\ NoLoadAfterEntrySeen
        /\ \A t \in Threads : ReturnsCached(t)
        /\ \A a \in Aliases :
              /\ CACHE[a] # NoEntry => CACHE'[a] # NoEntry
              /\ CACHE'[a] # CACHE[a] =>
                    \E t \in Threads :
                        /\ Steps(t, "store", "ret")
                        /\ thr[t].model = a
                        /\ ~thr[t].entry_at_check
                        /\ CACHE'[a] = thr[t].obj ]_vars

\* one load in the whole run, and a finished request that found the entry
C13_Witness ==
    /\ loads = 1
    /\ \E t \in Threads :
          /\ thr[t].pc = "done" /\ thr[t].entry_at_check
          /\ thr[t].got.kind = "ok" /\ thr[t].got.held = CACHE[thr[t].model]

\* no thread is inside joblib.load or about to store its result
LoadsFinished == \A t \in Threads : thr[t].pc \notin {"loading", "store"}

\* C14: under any interleaving of requests that first access the same alias
\* the artifact may be loaded more than once, but an entry becomes visible
\* only after its load completed: the cache never holds a partially
\* initialised estimator, every request that obtains a model obtains a fully
\* loaded one, each store overwrites the entry with the storing thread's
\* estimator (last writer wins), and once all loads are finished the alias
\* has one fully loaded entry.
C14_PublishOnCompletion ==
    [][ /\ \A a \in Aliases : CACHE'[a] # NoEntry => CACHE'[a].complete
        /\ \A t \in Threads :
              /\ (thr'[t].got # NotRun /\ thr'[t].got.kind = "ok") =>
                    thr'[t].got.held.complete
              /\ Steps(t, "store", "ret") =>
                    CACHE' = [CACHE EXCEPT ![thr[t].model] = thr[t].obj]
              /\ (LoadsFinished' /\ thr'[t].obj # NoEntry) =>
                    /\ CACHE'[thr'[t].model] # NoEntry
                    /\ CACHE'[thr'[t].model].complete ]_vars

\* both threads loaded the same alias; the cache holds the second load while
\* one finished request was answered with the first
C14_Witness ==
    /\ loads = 2
    /\ \A t \in Threads : thr[t].pc = "done" /\ thr[t].model = "rf" /\ thr[t].obj # NoEntry
    /\ CACHE["rf"].obj = 2
    /\ \E t \in Threads : thr[t].got.held.obj = 1

-----------------------------------------------------------------------------
(* Properties of a whole training run (checked under SpecTrain) *)

MainRan == t_res # NotRun /\ t_res.op = "main"

\* the exception types main raises for data errors: a horizon below 1, a
\* series that is too short, a CSV without its date or target column
HorizonErrorKind  == split_train_test(<<>>, 0).kind
TooShortErrorKind == main(<<>>, 1, "ok", "rf", 1, TRUE, "lo", TRUE).kind
NoDateErrorKind   == main(<<>>, 1, "no_date", "rf", 1, TRUE, "lo", TRUE).kind
NoTargetErrorKind == main(<<>>, 1, "no_target", "rf", 1, TRUE, "lo", TRUE).kind

DataErrorKinds ==
    {HorizonErrorKind, TooShortErrorKind, NoDateErrorKind, NoTargetErrorKind}

\* C15: on input that is otherwise valid, selecting xgb while the XGBoost
\* library is unavailable makes the training run fail (no estimator fit, no
\* artifact persisted, no metrics) with a dependency-unavailable error whose
\* kind is none of the kinds raised for data errors.
C15_XgbUnavailableIsItsOwnError ==
    ( /\ MainRan /\ t_res.model_name = "xgb" /\ ~HAS_XGB
      /\ t_res.columns = "ok" /\ t_res.horizon >= 1
      /\ Len(ts) >= t_res.horizon + MinExtraPoints ) =>
        /\ t_res.out.kind # "report"
        /\ ~t_res.out.fitted /\ ~t_res.out.persisted
        /\ t_res.out.metrics = NotRun
        /\ t_res.out.msg = "XGBoost not installed"
        /\ t_res.out.kind \notin DataErrorKinds

\* C20: in a run of main, splitting and training are reached only when the
\* series has at least horizon + 15 points; so whenever the split is
\* performed with horizon >= 1 the feature table has at least horizon + 12
\* rows, more rows than horizon, and the training part is non-empty; a run
\* on a shorter series fails before any model is fit or persisted.
C20_MainGuardsTheSplit ==
    MainRan =>
        LET o == t_res.out
            h == t_res.horizon
        IN  /\ o.reached_split => Len(ts) >= h + 15
            /\ (o.reached_split /\ h >= 1) =>
                  /\ Len(df_feat_of_ts) >= h + 12
                  /\ Len(df_feat_of_ts) > h
                  /\ split_train_test(df_feat_of_ts, h).kind = "SplitData"
                  /\ Len(split_train_test(df_feat_of_ts, h).X_train) >= 12
            /\ (t_res.columns = "ok" /\ Len(ts) < h + 15) =>
                  /\ o.kind = "RuntimeError" /\ o.msg = "Time series too short"
                  /\ ~o.reached_split /\ ~o.fitted /\ ~o.persisted

\* a run on 17 points with horizon 2 that trains and reports
C20_Witness ==
    /\ MainRan /\ Len(ts) = 17 /\ t_res.horizon = 2
    /\ t_res.out.reached_split /\ t_res.out.kind = "report"
    /\ Len(t_res.out.test_df) = 2

-----------------------------------------------------------------------------
(* Properties of the rolling features and of the baseline (SpecTrain) *)

\* the points p of 1..n with t - w <= p < t
Preceding(t, w) == {p \in 1..(t - 1) : p >= t - w}

MeanOver(s, idx) == RDivInt(SumOver(s, idx), Cardinality(idx))

\* the features of a row: everything but the target and the index
FeaturesOf(row) == <<row.lag, row.month, row.roll_mean_3, row.roll_mean_6>>

\* the values tried in place of value(t)
OtherValues == {F(7), F(-1000)}

\* C18: in the table add_lag_features builds, the rolling features of the
\* row of month t use only values strictly before t: roll_mean_3 is the mean
\* of the up to 3 values just before t and roll_mean_6 of the up to 6, over a
\* shorter window when fewer exist, so both are defined on every retained
\* row, and changing value(t) alone changes no feature of row t.
C18_RollingUsesOnlyEarlierValues ==
    LagsRan =>
        \A k \in 1..Len(t_res.out) :
            LET row == t_res.out[k]
                t   == row.idx
            IN  /\ ~IsNaN(row.roll_mean_3) /\ ~IsNaN(row.roll_mean_6)
                /\ Preceding(t, 3) # {}
                /\ row.roll_mean_3 = MeanOver(ts, Preceding(t, 3))
                /\ row.roll_mean_6 = MeanOver(ts, Preceding(t, 6))
                /\ \A v \in OtherValues :
                      FeaturesOf(lag_frame([ts EXCEPT ![t] = v], ts_start, 3)[t])
                        = FeaturesOf(row)

\* 8 points 100..800: the row of month 4 averages 3 values in both windows,
\* the row of month 7 averages 400..600 and 100..600
C18_Witness ==
    /\ LagsRan /\ ts = SeriesOf(8, 0) /\ Len(t_res.out) = 5
    /\ t_res.out[1].idx = 4
    /\ t_res.out[1].roll_mean_3 = F(200) /\ t_res.out[1].roll_mean_6 = F(200)
    /\ t_res.out[4].idx = 7
    /\ t_res.out[4].roll_mean_3 = F(500) /\ t_res.out[4].roll_mean_6 = F(350)

\* the inference-mode proxies computed from the three lags of a row
Roll3Proxy(row) == roll3(row.lag[1], row.lag[2], row.lag[3])
Roll6Proxy(row) == roll6(row.lag[1], row.lag[2], row.lag[3])

\* the number of points of the series before the point of a row
PriorPoints(row) == row.idx - 1

\* for every retained row roll_mean_3 is the roll_mean_3 proxy of its lags,
\* and roll_mean_6 is the roll_mean_6 proxy exactly on the rows with three
\* prior points
C26_RollSixCoincidesOnlyAtThreePriors ==
    LagsRan =>
        \A k \in 1..Len(t_res.out) :
            LET row == t_res.out[k]
            IN  /\ row.roll_mean_3 = Roll3Proxy(row)
                /\ (row.roll_mean_6 = Roll6Proxy(row)) <=> (PriorPoints(row) = 3)

\* C26: for every row the bulk feature builder retains, the training-time
\* roll_mean_3 is the mean of the row's lag_1, lag_2, lag_3, that is the
\* inference-mode proxy; roll_mean_6 is the proxy on every row with exactly
\* three prior points, and on a row with more it is the proxy exactly when
\* the earlier values of its window average to the mean of the three lags.
C26_RollThreeIsTheProxy ==
    LagsRan =>
        \A k \in 1..Len(t_res.out) :
            LET row   == t_res.out[k]
                t     == row.idx
                older == Preceding(t, 6) \ Preceding(t, 3)
            IN  /\ row.roll_mean_3 = Roll3Proxy(row)
                /\ PriorPoints(row) >= 3
                /\ PriorPoints(row) = 3 => row.roll_mean_6 = Roll6Proxy(row)
                /\ PriorPoints(row) > 3 =>
                      ((row.roll_mean_6 = Roll6Proxy(row))
                         <=> (MeanOver(ts, older) = MeanOver(ts, Preceding(t, 3))))

\* 8 points 100..800: the row of month 4 has three prior points and both
\* rolling means are the proxy 200; the row of month 7 has six, roll_mean_3
\* is the proxy 500 and roll_mean_6 is 350
C26_Witness ==
    /\ LagsRan /\ ts = SeriesOf(8, 0)
    /\ PriorPoints(t_res.out[1]) = 3
    /\ Roll3Proxy(t_res.out[1]) = F(200) /\ t_res.out[1].roll_mean_6 = Roll6Proxy(t_res.out[1])
    /\ PriorPoints(t_res.out[4]) = 6
    /\ t_res.out[4].roll_mean_3 = Roll3Proxy(t_res.out[4])
    /\ Roll6Proxy(t_res.out[4]) = F(500) /\ t_res.out[4].roll_mean_6 = F(350)

\* the baseline of month t of the series, taken on its own
BaselineAt(t) == baseline(ts, <<t>>)[1]

\* C19: the baseline is defined for every month of the series that has at
\* least one earlier point; every holdout month train_forecast_model
\* produces has at least 3 earlier points, so its baseline is defined.
C19_BaselineDefinedOnHoldout ==
    TrainRan =>
        /\ \A t \in 2..Len(ts) : ~IsNaN(BaselineAt(t))
        /\ t_res.out.kind = "trained" =>
              \A j \in 1..Len(t_res.out.test_df) :
                  /\ t_res.out.test_df[j].idx >= 4
                  /\ ~IsNaN(t_res.out.test_df[j].Baseline)
                  /\ t_res.out.test_df[j].Baseline = BaselineAt(t_res.out.test_df[j].idx)

\* 8 points, horizon 2: months 7 and 8 have no value a year back and take
\* the previous month's, 600 and 700
C19_Witness ==
    /\ TrainRan /\ ts = SeriesOf(8, 0) /\ t_res.horizon = 2
    /\ t_res.out.kind = "trained"
    /\ Len(t_res.out.test_df) = 2
    /\ t_res.out.test_df[1].idx = 7 /\ t_res.out.test_df[1].Baseline = F(600)
    /\ t_res.out.test_df[2].idx = 8 /\ t_res.out.test_df[2].Baseline = F(700)

-----------------------------------------------------------------------------
(* Properties of failed loads and of the log (checked under Spec) *)

\* the step handles a request for a discovered alias whose artifact does not load
FailedLoadStep ==
    /\ served' = served + 1
    /\ req'.model \in AVAILABLE
    /\ ~disk[req'.model].load_ok

\* C21: when loading the artifact fails inside _get_model, the cache is left
\* as it was, with no entry for the alias; the request is answered with the
\* baseline; and since there never is an entry, every request for the alias,
\* the next one included, attempts the load again.
C21_FailedLoadLeavesCacheAlone ==
    [][ FailedLoadStep =>
          /\ CACHE[req'.model] = NoEntry
          /\ req'.loaded
          /\ CACHE' = CACHE
          /\ req'.path = "fallback" /\ req'.stage = "lookup"
          /\ req'.resp.status = 200
          /\ req'.resp.prediction = round2(BaselineOf(req'.lags)) ]_vars

\* two requests in a row for an artifact that does not load (both in the
\* log): the second has attempted the load as well
C21_Witness ==
    /\ version = "v1_5" /\ served = 2 /\ disk["rf"] = ArtCorrupt
    /\ Len(log_rows) = 2 /\ log_rows[1].model = "rf" /\ log_rows[2].model = "rf"
    /\ req.model = "rf" /\ req.loaded /\ req.path = "fallback"
    /\ CACHE["rf"] = NoEntry

\* the response predict gives to the request of this step when db.commit()
\* succeeds (ok) or fails (~ok)
ResponseIf(ok, pred_value) ==
    predict(version, AVAILABLE, CACHE, disk, req'.lags[1], req'.lags[2], req'.lags[3],
            req'.model, req'.month, req'.now_month, pred_value, ok).resp

\* the unrounded prediction of the request of this step
UnroundedOk(yhat) ==
    /\ round2(yhat) = req'.resp.prediction
    /\ req'.path = "model" => yhat \in PredValues
    /\ req'.path = "fallback" =>
          yhat = simple_baseline(req'.lags[1], req'.lags[2], req'.lags[3])

\* C23: in api_v1_5 every predict request that passes the no-models check
\* attempts one log record holding the requested model, the three lags and
\* the unrounded prediction (model or fallback); a failed commit is rolled
\* back (no row is added) and changes neither the prediction, the model nor
\* the month of the response, nor makes it an error; `logged` is true
\* exactly when the commit succeeded, and then exactly one row was added.
C23_LoggingNeverChangesTheAnswer ==
    [][ (served' = served + 1 /\ version = "v1_5" /\ AVAILABLE # {}) =>
          /\ req'.log_attempted
          /\ req'.resp.status = 200
          /\ IF req'.resp.logged
             THEN /\ Len(log_rows') = Len(log_rows) + 1
                  /\ SubSeq(log_rows', 1, Len(log_rows)) = log_rows
                  /\ LET rec == log_rows'[Len(log_rows')]
                     IN  /\ rec.model = req'.model
                         /\ <<rec.lag1, rec.lag2, rec.lag3>> = req'.lags
                         /\ UnroundedOk(rec.prediction)
             ELSE log_rows' = log_rows
          /\ \A ok \in BOOLEAN, pred_value \in PredValues :
                \A r \in {ResponseIf(ok, pred_value)} :
                    /\ r.status = 200
                    /\ r.logged = ok
                    /\ r.prediction = req'.resp.prediction
                    /\ r.model = req'.resp.model
                    /\ r.used_month = req'.resp.used_month ]_vars

\* a logged model prediction (12.3449 in the row, 12.34 in the response),
\* then a request whose commit failed: still answered, one row in the log
C23_Witness ==
    /\ version = "v1_5" /\ served = 2 /\ Len(log_rows) = 1
    /\ log_rows[1].prediction = Rat(123449, 10000)
    /\ req # NotRun /\ req.resp.status = 200 /\ ~req.resp.logged
    /\ req.path = "model" /\ req.resp.prediction = Rat(1234, 100)

=============================================================================
